---- MODULE Spec2Model ----
(***************************************************************************)
(* Model of src/backend/libpq/crypt.c: md5_crypt_verify, the password      *)
(* check of the backend.  A C string is a sequence of bytes (without its   *)
(* terminating NUL).  The MD5 digest is symbolic: the i-th hex digit of    *)
(* MD5(x) is the byte HexDigit(x, i), so two digests are equal exactly     *)
(* when their inputs are (the digest is taken as collision-free).          *)
(***************************************************************************)
EXTENDS Naturals, Integers, Sequences, FiniteSets, TLC

VARIABLES
  pg_authid,  \* the directory: role name -> pg_authid tuple
  authid0,    \* the directory as it was initially (history)
  now,        \* the clock
  call,       \* the arguments of the call that returned last
  result      \* what that call returned and the work it did

vars == <<pg_authid, authid0, now, call, result>>

(* ------------------------------ bounds --------------------------------- *)

\* the clock runs over 0..MaxTime
MaxTime == 2
\* plaintext passwords have at most MaxPassLen bytes
MaxPassLen == 2
\* number of hex digits of the symbolic digest (32 in the program)
HexLen == 2

(* ------------------------------ bytes ---------------------------------- *)

\* a literal byte
Lit(c) == [lit |-> c, of |-> <<>>, i |-> 0]

\* the i-th hex digit of the MD5 digest of the byte string x
HexDigit(x, i) == [lit |-> "hex", of |-> x, i |-> i]

\* the terminating byte of a C string
NUL == Lit("NUL")

\* the byte of the C string s at 1-based position i (NUL from its end on)
CharAt(s, i) == IF i <= Len(s) THEN s[i] ELSE NUL

\* "md5", the marker of a stored hash; strlen("md5") is its length
Md5Marker == <<Lit("m"), Lit("d"), Lit("5")>>

MD5_PASSWD_LEN == Len(Md5Marker) + HexLen

STATUS_OK == "STATUS_OK"
STATUS_ERROR == "STATUS_ERROR"

\* what the call stores at *logdetail; LogdetailUnset: it stored nothing
LogdetailUnset == "unset"
RoleDoesNotExist == "Role does not exist."
NoPasswordAssigned == "User has no password assigned."
EmptyPasswordDetail == "User has an empty password."
ExpiredPassword == "User has an expired password."
PasswordDoesNotMatch == "Password does not match for user."

(* --------------------------- collaborators ----------------------------- *)

\* pg_md5_encrypt(passwd, salt, salt_len, buf): on success buf holds "md5"
\* followed by the hex digits of MD5(passwd || salt[0..salt_len-1])
pg_md5_encrypt(passwd, salt, salt_len) ==
  Md5Marker \o [i \in 1..HexLen |-> HexDigit(passwd \o SubSeq(salt, 1, salt_len), i)]

\* isMD5(passwd): strncmp(passwd, "md5", 3) == 0 && strlen(passwd) == MD5_PASSWD_LEN
isMD5(passwd) ==
  /\ Len(passwd) = MD5_PASSWD_LEN
  /\ SubSeq(passwd, 1, Len(Md5Marker)) = Md5Marker

\* strlen(s)
strlen(s) == Len(s)

\* the number of byte pairs strcmp(a, b) examines: it stops at the first
\* pair that differs, or at the terminating NUL of two equal strings
StrcmpWork(a, b) ==
  LET n == IF Len(a) < Len(b) THEN Len(a) ELSE Len(b)
      diff == {i \in 1..(n + 1) : CharAt(a, i) # CharAt(b, i)}
  IN  IF diff = {} THEN n + 1
      ELSE CHOOSE i \in diff : \A j \in diff : i <= j

\* mutant of StrcmpEqual: strncmp(a, b, strlen(a)) == 0, a prefix test
StrncmpEqual(a, b) ==
  \A i \in 1..Len(a) : CharAt(a, i) = CharAt(b, i)

\* strcmp(a, b) == 0
StrcmpEqual(a, b) ==
  \A i \in 1..StrcmpWork(a, b) : CharAt(a, i) = CharAt(b, i)

\* the k-th call of pg_md5_encrypt in one verification returns false when
\* the allocator fails there (hashFails = k); hashFails = 0: no failure
EncryptFails(k, hashFails) == hashFails = k

\* the pg_authid tuple of a role that does not exist
InvalidTuple ==
  [valid |-> FALSE, pw_isnull |-> TRUE, rolpassword |-> <<>>,
   vu_isnull |-> TRUE, rolvaliduntil |-> 0]

\* SearchSysCache1(AUTHNAME, role)
SearchSysCache1(dir, role) == dir[role]

(* -------------------------- md5_crypt_verify --------------------------- *)

\* what one call leaves behind when it returns before the hashing branches
NoWork ==
  [hashCalls |-> 0, hashFailed |-> FALSE, compared |-> FALSE, cmpWork |-> 0,
   clockRead |-> FALSE, crypt_pwd |-> <<>>, crypt_client_pass |-> <<>>]

\* "return retval" with logdetail as the call stored it (LogdetailUnset: nothing
\* was stored at *logdetail) and the work w the call did
Return(retval, logdetail, w) ==
  [called |-> TRUE, retval |-> retval, logdetail |-> logdetail,
   hashCalls |-> w.hashCalls, hashFailed |-> w.hashFailed,
   compared |-> w.compared, cmpWork |-> w.cmpWork, clockRead |-> w.clockRead,
   crypt_pwd |-> w.crypt_pwd, crypt_client_pass |-> w.crypt_client_pass]

\* mutant of NoSuchUser: the negation is dropped
NoSuchUserInverted(roleTup) == roleTup.valid

\* if (!HeapTupleIsValid(roleTup))
NoSuchUser(roleTup) == ~roleTup.valid

\* mutant of EmptyPassword: the pointer is tested instead of its first byte
EmptyPasswordPointerTest(shadow_pass) == FALSE

\* if (*shadow_pass == '\0')
EmptyPassword(shadow_pass) == CharAt(shadow_pass, 1) = NUL

\* shadow_pass + strlen("md5")
SkipMarker(passwd) == SubSeq(passwd, strlen(Md5Marker) + 1, Len(passwd))

\* mutant of Md5Authentication: the double-encrypt branch hashes crypt_pwd2
\* with its "md5" marker instead of skipping it
Md5AuthenticationKeepsMarker(shadow_pass, role, md5_salt, md5_salt_len, hashFails) ==
  IF isMD5(shadow_pass)
  THEN IF EncryptFails(1, hashFails)
       THEN [ok |-> FALSE, hashCalls |-> 1, crypt_pwd |-> <<>>]
       ELSE [ok |-> TRUE, hashCalls |-> 1,
             crypt_pwd |-> pg_md5_encrypt(SkipMarker(shadow_pass),
                                          md5_salt, md5_salt_len)]
  ELSE LET crypt_pwd2 == pg_md5_encrypt(shadow_pass, role, strlen(role))
       IN  IF EncryptFails(1, hashFails)
           THEN [ok |-> FALSE, hashCalls |-> 1, crypt_pwd |-> <<>>]
           ELSE IF EncryptFails(2, hashFails)
           THEN [ok |-> FALSE, hashCalls |-> 2, crypt_pwd |-> <<>>]
           ELSE [ok |-> TRUE, hashCalls |-> 2,
                 crypt_pwd |-> pg_md5_encrypt(crypt_pwd2, md5_salt, md5_salt_len)]

\* the branch "if (md5_salt)": the expected response crypt_pwd to an MD5
\* challenge; ok = FALSE when pg_md5_encrypt failed
Md5Authentication(shadow_pass, role, md5_salt, md5_salt_len, hashFails) ==
  IF isMD5(shadow_pass)
  THEN \* stored password already encrypted, only do salt
       IF EncryptFails(1, hashFails)
       THEN [ok |-> FALSE, hashCalls |-> 1, crypt_pwd |-> <<>>]
       ELSE [ok |-> TRUE, hashCalls |-> 1,
             crypt_pwd |-> pg_md5_encrypt(SkipMarker(shadow_pass),
                                          md5_salt, md5_salt_len)]
  ELSE \* stored password is plain, double-encrypt
       LET crypt_pwd2 == pg_md5_encrypt(shadow_pass, role, strlen(role))
       IN  IF EncryptFails(1, hashFails)
           THEN [ok |-> FALSE, hashCalls |-> 1, crypt_pwd |-> <<>>]
           ELSE IF EncryptFails(2, hashFails)
           THEN [ok |-> FALSE, hashCalls |-> 2, crypt_pwd |-> <<>>]
           ELSE [ok |-> TRUE, hashCalls |-> 2,
                 crypt_pwd |-> pg_md5_encrypt(SkipMarker(crypt_pwd2),
                                              md5_salt, md5_salt_len)]

\* mutant of PlaintextAuthentication: the result of pg_md5_encrypt is not
\* tested, a failed call leaves the buffer empty
PlaintextAuthenticationUnchecked(shadow_pass, role, client_pass, hashFails) ==
  IF isMD5(shadow_pass)
  THEN IF EncryptFails(1, hashFails)
       THEN [ok |-> TRUE, hashCalls |-> 1, crypt_client_pass |-> <<>>]
       ELSE [ok |-> TRUE, hashCalls |-> 1,
             crypt_client_pass |-> pg_md5_encrypt(client_pass, role, strlen(role))]
  ELSE [ok |-> TRUE, hashCalls |-> 0, crypt_client_pass |-> client_pass]

\* the branch "else": the client sent the password in plaintext
PlaintextAuthentication(shadow_pass, role, client_pass, hashFails) ==
  IF isMD5(shadow_pass)
  THEN \* encrypt user-supplied password to match stored MD5
       IF EncryptFails(1, hashFails)
       THEN [ok |-> FALSE, hashCalls |-> 1, crypt_client_pass |-> <<>>]
       ELSE [ok |-> TRUE, hashCalls |-> 1,
             crypt_client_pass |-> pg_md5_encrypt(client_pass, role, strlen(role))]
  ELSE [ok |-> TRUE, hashCalls |-> 0, crypt_client_pass |-> client_pass]

\* mutant of PastValidUntil: the password expires at rolvaliduntil itself
PastValidUntilInclusive(vuntil, clock) == vuntil <= clock

\* vuntil < GetCurrentTimestamp()
PastValidUntil(vuntil, clock) == vuntil < clock

\* mutant of CheckPassword: the expired branch stores its detail but
\* returns STATUS_OK
CheckPasswordExpiredOk(crypt_client_pass, crypt_pwd, isnull, vuntil, clock, hashCalls) ==
  LET w == [hashCalls |-> hashCalls, hashFailed |-> FALSE, compared |-> TRUE,
            cmpWork |-> StrcmpWork(crypt_client_pass, crypt_pwd),
            clockRead |-> FALSE, crypt_pwd |-> crypt_pwd,
            crypt_client_pass |-> crypt_client_pass]
  IN  IF StrcmpEqual(crypt_client_pass, crypt_pwd)
      THEN IF isnull
           THEN Return(STATUS_OK, LogdetailUnset, w)
           ELSE IF PastValidUntil(vuntil, clock)
           THEN Return(STATUS_OK, ExpiredPassword, [w EXCEPT !.clockRead = TRUE])
           ELSE Return(STATUS_OK, LogdetailUnset, [w EXCEPT !.clockRead = TRUE])
      ELSE Return(STATUS_ERROR, PasswordDoesNotMatch, w)

\* mutant of CheckPassword: rolvaliduntil is checked before the comparison
CheckPasswordExpiryFirst(crypt_client_pass, crypt_pwd, isnull, vuntil, clock, hashCalls) ==
  LET w == [hashCalls |-> hashCalls, hashFailed |-> FALSE, compared |-> FALSE,
            cmpWork |-> 0, clockRead |-> ~isnull, crypt_pwd |-> crypt_pwd,
            crypt_client_pass |-> crypt_client_pass]
      c == [w EXCEPT !.compared = TRUE,
                     !.cmpWork = StrcmpWork(crypt_client_pass, crypt_pwd)]
  IN  IF ~isnull /\ PastValidUntil(vuntil, clock)
      THEN Return(STATUS_ERROR, ExpiredPassword, w)
      ELSE IF StrcmpEqual(crypt_client_pass, crypt_pwd)
      THEN Return(STATUS_OK, LogdetailUnset, c)
      ELSE Return(STATUS_ERROR, PasswordDoesNotMatch, c)

\* "if (strcmp(crypt_client_pass, crypt_pwd) == 0) ... else ...": the
\* comparison and, on a match, the rolvaliduntil check
CheckPassword(crypt_client_pass, crypt_pwd, isnull, vuntil, clock, hashCalls) ==
  LET w == [hashCalls |-> hashCalls, hashFailed |-> FALSE, compared |-> TRUE,
            cmpWork |-> StrcmpWork(crypt_client_pass, crypt_pwd),
            clockRead |-> FALSE, crypt_pwd |-> crypt_pwd,
            crypt_client_pass |-> crypt_client_pass]
  IN  IF StrcmpEqual(crypt_client_pass, crypt_pwd)
      THEN IF isnull
           THEN Return(STATUS_OK, LogdetailUnset, w)
           ELSE IF PastValidUntil(vuntil, clock)
           THEN Return(STATUS_ERROR, ExpiredPassword,
                       [w EXCEPT !.clockRead = TRUE])
           ELSE Return(STATUS_OK, LogdetailUnset, [w EXCEPT !.clockRead = TRUE])
      ELSE Return(STATUS_ERROR, PasswordDoesNotMatch, w)

\* a pg_md5_encrypt failure: "return STATUS_ERROR" with logdetail not set
EncryptFailed(hashCalls) ==
  Return(STATUS_ERROR, LogdetailUnset,
         [NoWork EXCEPT !.hashCalls = hashCalls, !.hashFailed = TRUE])

\* md5_crypt_verify(role, client_pass, md5_salt, md5_salt_len, logdetail),
\* its arguments in the record a, against the directory dir at clock time
\* clock; a.md5_salt_isnull: md5_salt is NULL, the password is in plaintext
md5_crypt_verify(dir, clock, a, hashFails) ==
  LET role == a.role
      client_pass == a.client_pass
      md5_salt_isnull == a.md5_salt_isnull
      md5_salt == a.md5_salt
      md5_salt_len == a.md5_salt_len
      roleTup == SearchSysCache1(dir, role)
      shadow_pass == roleTup.rolpassword
      isnull == roleTup.vu_isnull
      vuntil == IF isnull THEN 0 ELSE roleTup.rolvaliduntil
  IN  IF NoSuchUser(roleTup)
      THEN Return(STATUS_ERROR, RoleDoesNotExist, NoWork)
      ELSE IF roleTup.pw_isnull
      THEN Return(STATUS_ERROR, NoPasswordAssigned, NoWork)
      ELSE IF EmptyPassword(shadow_pass)
      THEN Return(STATUS_ERROR, EmptyPasswordDetail, NoWork)
      ELSE IF ~md5_salt_isnull
      THEN LET m == Md5Authentication(shadow_pass, role, md5_salt,
                                      md5_salt_len, hashFails)
           IN  IF ~m.ok THEN EncryptFailed(m.hashCalls)
               ELSE CheckPassword(client_pass, m.crypt_pwd, isnull, vuntil,
                                  clock, m.hashCalls)
      ELSE LET p == PlaintextAuthentication(shadow_pass, role, client_pass,
                                            hashFails)
           IN  IF ~p.ok THEN EncryptFailed(p.hashCalls)
               ELSE CheckPassword(p.crypt_client_pass, shadow_pass, isnull,
                                  vuntil, clock, p.hashCalls)

\* mutant of AuthidAfterVerify: the double-encrypt branch writes the hash
\* it computed back to rolpassword
AuthidAfterUpgrade(dir, a) ==
  LET t == dir[a.role]
  IN  IF /\ ~a.md5_salt_isnull
         /\ t.valid
         /\ ~t.pw_isnull
         /\ t.rolpassword # <<>>
         /\ ~isMD5(t.rolpassword)
      THEN [dir EXCEPT ![a.role].rolpassword =
              pg_md5_encrypt(t.rolpassword, a.role, strlen(a.role))]
      ELSE dir

\* pg_authid after a call: the tuple is read and released, nothing is written
AuthidAfterVerify(dir, a) == dir

(* ----------------------------- the inputs ------------------------------ *)

\* the byte strings over alphabet of length at most n
Strings(alphabet, n) == UNION {[1..k -> alphabet] : k \in 0..n}

\* role names
RoleNames == {<<Lit("a")>>, <<Lit("b")>>}

\* plaintext passwords; the last one has the shape of a stored hash
Plaintexts ==
  Strings({Lit("a"), Lit("b")}, MaxPassLen)
    \cup {Md5Marker \o [i \in 1..HexLen |-> Lit("a")]}

\* the salts of MD5 challenges
Salts == {<<Lit("x")>>, <<Lit("y")>>}

\* what CREATE ROLE stores for password p of role r when it encrypts it
StoredHash(p, r) == pg_md5_encrypt(p, r, Len(r))

\* the response of a client that knows password p of role r to salt s
Response(p, r, s) == pg_md5_encrypt(SkipMarker(StoredHash(p, r)), s, Len(s))

\* rolpassword values: a plaintext, or the hash of a plaintext keyed on a
\* role name (on another name than the role's after the role was renamed)
StoredPasswords ==
  Plaintexts \cup {StoredHash(p, r) : p \in Plaintexts, r \in RoleNames}

\* the pg_authid tuples: without password, with a password that
\* never expires, with a password and rolvaliduntil
Tuples ==
  [valid : {TRUE}, pw_isnull : {TRUE}, rolpassword : {<<>>},
   vu_isnull : {TRUE}, rolvaliduntil : {0}]
  \cup
  [valid : {TRUE}, pw_isnull : {FALSE}, rolpassword : StoredPasswords,
   vu_isnull : {TRUE}, rolvaliduntil : {0}]
  \cup
  [valid : {TRUE}, pw_isnull : {FALSE}, rolpassword : StoredPasswords,
   vu_isnull : {FALSE}, rolvaliduntil : 1..(MaxTime - 1)]

\* the directories: at most one of the role names exists
Directories ==
  {[r \in RoleNames |-> InvalidTuple]}
    \cup {[r \in RoleNames |-> IF r = e THEN t ELSE InvalidTuple] :
            e \in RoleNames, t \in Tuples}

\* what a client may send as the password of role r
ClientPasses(r) ==
  Plaintexts \cup {Response(p, r, s) : p \in Plaintexts, s \in Salts}

\* the arguments of a call
Arguments ==
  UNION {{[role |-> r, client_pass |-> c, md5_salt_isnull |-> TRUE,
            md5_salt |-> <<>>, md5_salt_len |-> 0] : c \in ClientPasses(r)}
           \cup
          {[role |-> r, client_pass |-> c, md5_salt_isnull |-> FALSE,
            md5_salt |-> s, md5_salt_len |-> Len(s)] :
              c \in ClientPasses(r), s \in Salts} : r \in RoleNames}

\* pg_md5_encrypt is called at most twice in one verification
MaxEncryptCalls == 2

(* --------------------------- the state machine ------------------------- *)

NoCall ==
  [args |-> [role |-> <<>>, client_pass |-> <<>>, md5_salt_isnull |-> TRUE,
             md5_salt |-> <<>>, md5_salt_len |-> 0],
   hashFails |-> 0, at |-> 0]

NoResult ==
  [called |-> FALSE, retval |-> STATUS_OK, logdetail |-> LogdetailUnset,
   hashCalls |-> 0, hashFailed |-> FALSE, compared |-> FALSE, cmpWork |-> 0,
   clockRead |-> FALSE, crypt_pwd |-> <<>>, crypt_client_pass |-> <<>>]

Init ==
  /\ pg_authid \in Directories
  /\ authid0 = pg_authid
  /\ now = 0
  /\ call = NoCall
  /\ result = NoResult

\* one authentication attempt: a call of md5_crypt_verify to its return
Authenticate ==
  /\ ~result.called
  /\ \E a \in Arguments, hashFails \in 0..MaxEncryptCalls :
       /\ call' = [args |-> a, hashFails |-> hashFails, at |-> now]
       /\ result' = md5_crypt_verify(pg_authid, now, a, hashFails)
       /\ pg_authid' = AuthidAfterVerify(pg_authid, a)
  /\ UNCHANGED <<now, authid0>>

\* the caller has used the result; the values of the attempt are gone
Finish ==
  /\ result.called
  /\ call' = NoCall
  /\ result' = NoResult
  /\ UNCHANGED <<pg_authid, authid0, now>>

\* time passes between two attempts
Tick ==
  /\ ~result.called
  /\ now < MaxTime
  /\ now' = now + 1
  /\ UNCHANGED <<pg_authid, authid0, call, result>>

Next == Authenticate \/ Finish \/ Tick

Spec == Init /\ [][Next]_vars

(* ------------------------- reading the state --------------------------- *)

\* the pg_authid tuple of the role of the last call
CalledTuple == authid0[call.args.role]

\* the last call got as far as the hashing branches
ReachedHashing ==
  /\ result.called
  /\ CalledTuple.valid
  /\ ~CalledTuple.pw_isnull
  /\ CalledTuple.rolpassword # <<>>

\* the number of pg_md5_encrypt calls the branch of the last call makes
EncryptCallsOfBranch ==
  IF ~call.args.md5_salt_isnull
  THEN IF isMD5(CalledTuple.rolpassword) THEN 1 ELSE 2
  ELSE IF isMD5(CalledTuple.rolpassword) THEN 1 ELSE 0

\* a pg_md5_encrypt call of the last call failed
EncryptFailureOccurred ==
  /\ ReachedHashing
  /\ call.hashFails \in 1..EncryptCallsOfBranch

\* the secret the client presented in the last call is the right one for
\* the stored credential, case by case of stored form x presented form
SecretMatches ==
  LET stored == CalledTuple.rolpassword
      a == call.args
  IN  IF ~a.md5_salt_isnull
      THEN IF isMD5(stored)
           THEN a.client_pass =
                  pg_md5_encrypt(SkipMarker(stored), a.md5_salt, a.md5_salt_len)
           ELSE a.client_pass = Response(stored, a.role, a.md5_salt)
      ELSE IF isMD5(stored)
           THEN StoredHash(a.client_pass, a.role) = stored
           ELSE a.client_pass = stored

Accepted == result.retval = STATUS_OK /\ result.logdetail = LogdetailUnset

Rejected(detail) == result.retval = STATUS_ERROR /\ result.logdetail = detail

(* ------------------------------- claims -------------------------------- *)

\* the last call answered an MD5 challenge for a role whose stored password
\* is a plaintext (it has not the form of a hash), and no pg_md5_encrypt
\* call fails
ChallengeAgainstPlaintext ==
  /\ result.called
  /\ ~call.args.md5_salt_isnull
  /\ call.hashFails = 0
  /\ CalledTuple.valid
  /\ ~CalledTuple.pw_isnull
  /\ ~isMD5(CalledTuple.rolpassword)

\* the last call again, against the directory in which the plaintext
\* password of the role is stored as its hash keyed on the role name
AgainstHashed ==
  md5_crypt_verify(
    [authid0 EXCEPT ![call.args.role].rolpassword =
       StoredHash(CalledTuple.rolpassword, call.args.role)],
    call.at, call.args, call.hashFails)

\* C1 (as claimed): for every plaintext secret, a response to an MD5
\* challenge is accepted against the plaintext-stored password exactly when
\* it is accepted against the stored hash of the same password and role,
\* the expected responses being equal.
UpgradeEquivalenceEverySecret ==
  ChallengeAgainstPlaintext =>
    /\ result.retval = AgainstHashed.retval
    /\ result.compared => result.crypt_pwd = AgainstHashed.crypt_pwd

\* C1 (amended): for every non-empty plaintext secret, when no
\* pg_md5_encrypt call fails, the expected response computed from the
\* plaintext-stored password equals the one computed from the stored hash
\* of the same password and role, and the two calls return the same status
\* and detail.
UpgradeEquivalence ==
  (ChallengeAgainstPlaintext /\ CalledTuple.rolpassword # <<>>) =>
    /\ result.compared
    /\ AgainstHashed.compared
    /\ result.crypt_pwd = AgainstHashed.crypt_pwd
    /\ result.retval = AgainstHashed.retval
    /\ result.logdetail = AgainstHashed.logdetail

\* C1 witness: the response of a client that knows the plaintext-stored
\* password is accepted through the double-encrypt branch
UpgradeEquivalenceWitness ==
  /\ ChallengeAgainstPlaintext
  /\ Len(CalledTuple.rolpassword) = MaxPassLen
  /\ call.args.client_pass =
       Response(CalledTuple.rolpassword, call.args.role, call.args.md5_salt)
  /\ result.hashCalls = 2
  /\ Accepted
  /\ AgainstHashed.retval = STATUS_OK

\* C2: a call for a role that the lookup does not resolve returns
\* STATUS_ERROR with the detail "Role does not exist.", whatever the
\* presented secret, salt and time are, and it calls neither pg_md5_encrypt
\* nor strcmp, nor reads the clock.
UnknownRoleRejected ==
  (result.called /\ ~CalledTuple.valid) =>
    /\ Rejected(RoleDoesNotExist)
    /\ result.hashCalls = 0
    /\ ~result.compared
    /\ ~result.clockRead

\* C2 witness: an MD5 response for a role that does not exist, after the
\* clock has advanced
UnknownRoleWitness ==
  /\ result.called
  /\ ~CalledTuple.valid
  /\ ~call.args.md5_salt_isnull
  /\ isMD5(call.args.client_pass)
  /\ call.at > 0
  /\ Rejected(RoleDoesNotExist)

\* C3: a call for a role whose stored password is the empty string returns
\* STATUS_ERROR with the detail "User has an empty password.", for every
\* presented secret, rolvaliduntil and time.
EmptyCredentialRejected ==
  (result.called /\ CalledTuple.valid /\ ~CalledTuple.pw_isnull
     /\ CalledTuple.rolpassword = <<>>) =>
    Rejected(EmptyPasswordDetail)

\* C3 witness: the empty plaintext password presented against the empty
\* stored password, which strcmp would find equal
EmptyCredentialWitness ==
  /\ result.called
  /\ CalledTuple.valid
  /\ ~CalledTuple.pw_isnull
  /\ CalledTuple.rolpassword = <<>>
  /\ call.args.md5_salt_isnull
  /\ call.args.client_pass = <<>>
  /\ Rejected(EmptyPasswordDetail)

\* C4: when the presented secret is the right one (and pg_md5_encrypt did
\* not fail), the call returns STATUS_OK if rolvaliduntil is null or the
\* time of the call is not after it, and STATUS_ERROR with the detail
\* "User has an expired password." if the time of the call is after it.
ExpirationBoundary ==
  (ReachedHashing /\ ~EncryptFailureOccurred /\ SecretMatches) =>
    IF CalledTuple.vu_isnull \/ call.at <= CalledTuple.rolvaliduntil
    THEN Accepted
    ELSE Rejected(ExpiredPassword)

\* C4 witness: the right secret presented exactly at rolvaliduntil
ExpirationBoundaryWitness ==
  /\ ReachedHashing
  /\ ~EncryptFailureOccurred
  /\ SecretMatches
  /\ ~CalledTuple.vu_isnull
  /\ call.at = CalledTuple.rolvaliduntil
  /\ Accepted

\* C5: when a pg_md5_encrypt call fails, in any of the three hashing
\* branches, the call returns STATUS_ERROR without reaching strcmp and
\* without the mismatch detail; it stores no detail at all, and no other
\* path returns STATUS_ERROR without a detail.
EncryptFailureDistinct ==
  /\ EncryptFailureOccurred =>
       /\ Rejected(LogdetailUnset)
       /\ ~result.compared
       /\ result.logdetail # PasswordDoesNotMatch
  /\ (result.called /\ Rejected(LogdetailUnset)) => EncryptFailureOccurred

\* C5 witness: the second pg_md5_encrypt of the double-encrypt branch fails
EncryptFailureWitness ==
  /\ EncryptFailureOccurred
  /\ ~call.args.md5_salt_isnull
  /\ ~isMD5(CalledTuple.rolpassword)
  /\ call.hashFails = 2
  /\ SecretMatches
  /\ Rejected(LogdetailUnset)

\* the bytes a single-byte alteration may put in place of a byte
AlterBytes == {Lit("a"), Lit("b"), NUL}

\* the C string p with byte i replaced by c (a NUL ends the string there)
Alter(p, i, c) == IF c = NUL THEN SubSeq(p, 1, i - 1) ELSE [p EXCEPT ![i] = c]

\* the single-byte alterations of the C string p
Alterations(p) ==
  {Alter(p, i, c) : i \in 1..Len(p), c \in AlterBytes} \ {p}

\* the last call again, with q as the presented secret
AgainWith(q) ==
  md5_crypt_verify(authid0, call.at, [call.args EXCEPT !.client_pass = q],
                   call.hashFails)

\* C6: when the call returned STATUS_OK, the same call with any single
\* byte of the presented plaintext or response altered returns
\* STATUS_ERROR with the detail "Password does not match for user.", in
\* each of the four combinations of stored form and presented form.
AlterationRejected ==
  (result.called /\ Accepted) =>
    \A q \in Alterations(call.args.client_pass) :
      /\ AgainWith(q).retval = STATUS_ERROR
      /\ AgainWith(q).logdetail = PasswordDoesNotMatch

\* C6 witness: a plaintext password accepted against a stored hash
AlterationWitness ==
  /\ result.called
  /\ Accepted
  /\ call.args.md5_salt_isnull
  /\ isMD5(CalledTuple.rolpassword)
  /\ Len(call.args.client_pass) = MaxPassLen

\* the failures that apply to the last call
Failures ==
  {k \in {"IdentityNotFound", "NoPassword", "EmptyCredential", "HashingFailure",
          "Mismatch", "Expired"} :
     \/ k = "IdentityNotFound" /\ ~CalledTuple.valid
     \/ k = "NoPassword" /\ CalledTuple.valid /\ CalledTuple.pw_isnull
     \/ k = "EmptyCredential" /\ CalledTuple.valid /\ ~CalledTuple.pw_isnull
          /\ CalledTuple.rolpassword = <<>>
     \/ k = "HashingFailure" /\ EncryptFailureOccurred
     \/ k = "Mismatch" /\ ReachedHashing /\ ~SecretMatches
     \/ k = "Expired" /\ ReachedHashing /\ SecretMatches
          /\ ~CalledTuple.vu_isnull /\ CalledTuple.rolvaliduntil < call.at}

\* C7: the call returns one of two values, and whenever a failure applies
\* (role missing, no or empty password, pg_md5_encrypt failure, mismatch,
\* expiry) it returns the same one, STATUS_ERROR; STATUS_OK is returned
\* only when none applies.
UniformRejection ==
  result.called =>
    /\ result.retval \in {STATUS_OK, STATUS_ERROR}
    /\ (result.retval = STATUS_ERROR <=> Failures # {})

\* C7 witness: the right secret, expired
UniformRejectionWitness ==
  /\ result.called
  /\ Failures = {"Expired"}
  /\ result.retval = STATUS_ERROR

\* C8: pg_authid is what it was initially, after any number of calls, and
\* what a call returns is what md5_crypt_verify gives for its arguments,
\* the initial directory and the time of the call.
DirectoryUnchanged ==
  /\ pg_authid = authid0
  /\ result.called =>
       result = md5_crypt_verify(authid0, call.at, call.args, call.hashFails)

\* C8 witness: the double-encrypt branch has run to an accepted response,
\* and rolpassword is still the plaintext
DirectoryUnchangedWitness ==
  /\ ReachedHashing
  /\ ~call.args.md5_salt_isnull
  /\ ~isMD5(CalledTuple.rolpassword)
  /\ result.hashCalls = 2
  /\ Accepted
  /\ ~isMD5(pg_authid[call.args.role].rolpassword)

\* C9 (as claimed): the work of the comparison does not depend on where
\* the first differing byte is: the same call with a presented secret of
\* the same length examines as many bytes.
ConstantTimeComparison ==
  (result.called /\ result.compared) =>
    \A q \in Alterations(call.args.client_pass) :
      Len(q) = Len(call.args.client_pass) =>
        AgainWith(q).cmpWork = result.cmpWork

\* C10: the checks are made in the order lookup, password present and not
\* empty, comparison, expiry, and the first that fails is reported: an
\* empty password is reported as such even when expired, a wrong secret is
\* reported as a mismatch even when the password is expired, expiry is
\* reported only for the right secret, and the clock is read only after
\* the comparison succeeded.
CheckOrder ==
  result.called =>
    /\ ~CalledTuple.valid => Rejected(RoleDoesNotExist)
    /\ (CalledTuple.valid /\ CalledTuple.pw_isnull) => Rejected(NoPasswordAssigned)
    /\ (CalledTuple.valid /\ ~CalledTuple.pw_isnull
          /\ CalledTuple.rolpassword = <<>>) => Rejected(EmptyPasswordDetail)
    /\ (ReachedHashing /\ ~EncryptFailureOccurred /\ ~SecretMatches) =>
          Rejected(PasswordDoesNotMatch)
    /\ result.logdetail = ExpiredPassword =>
          (ReachedHashing /\ result.compared /\ SecretMatches)
    /\ result.clockRead => (result.compared /\ SecretMatches)

\* C10 witness: a wrong secret against an expired password
CheckOrderWitness ==
  /\ ReachedHashing
  /\ ~SecretMatches
  /\ ~CalledTuple.vu_isnull
  /\ CalledTuple.rolvaliduntil < call.at
  /\ Rejected(PasswordDoesNotMatch)

====
